---- MODULE Spec2Model ----
(***************************************************************************)
(* ReadySetHire: the recruiter-side question generation layer (promise     *)
(* cache keyed by job role, zod schema validation of the model output, the *)
(* proxy endpoint), the applicant-side interview walk (one question at a   *)
(* time, answer POST, status PATCH on the last question, the speech engine *)
(* and its microphone), the add/edit applicant form that shares the        *)
(* applicant row with the walk, the review page of an applicant's answers  *)
(* and the dashboard of interviews with its counts.                        *)
(***************************************************************************)
EXTENDS Integers, Sequences, FiniteSets, TLC

\* ------------------------------------------------------------------ bounds
\* component instances of <Questions/> that exist during one process life
NumPages == 2
\* cap on the number of fetchAIQuestions calls of one behaviour
MaxPromises == 3
\* longest candidate questions array handed to the schema
MaxItems == 2
\* longest question list an interview is loaded with
MaxQuestions == 2
\* cap on the rows of the applicant_answer table
MaxRows == 2
\* cap on the utterances the speech engine appends to one transcript
MaxSpeech == 1
\* the same cap where only the recording of a question is followed
MaxTalk == 4
\* most interviews the dashboard lists
MaxInterviews == 2
\* largest total a content-range header carries
MaxCount == 1

VARIABLES
    \* Questions.jsx, module level
    questionPromiseCache,   \* job role -> promise id (0: no entry)
    promises,               \* every promise fetchAIQuestions has returned
    \* Questions.jsx, one record per component instance
    pages,
    \* the schema on its own
    candidate, parsed,
    \* llm-api-server/server.js: one request to /api/generate-question
    request, reply,
    \* TakeInterviewLayout / TakeInterviewWelcome / InterviewQuestion
    questions, route, isPaused, listening, transcript, submitting, task,
    urlApplicant,           \* the applicantId of the link
    \* the REST store
    answerRows, interviewStatus,
    \* what the applicant has been shown, and the walk so far
    alert, statusIssued, clean, advances,
    intervals,              \* the speech of each recording interval since the last reset
    reached,                \* how many leading questions the page has navigated to
    \* the speech engine: the browser's permission for the microphone, and
    \* what useSpeechRecognition reports
    micPermission, isMicrophoneAvailable, browserSupportsSpeechRecognition,
    \* the goToNextQuestion call in flight of a component that has unmounted
    orphan,
    \* AddApplicants.jsx
    form,
    \* ViewApplicantAnswers.jsx
    review,
    \* Interviews.jsx
    desk

genVars == <<questionPromiseCache, promises, pages>>
schemaVars == <<candidate, parsed, request, reply>>
walkVars == <<questions, route, isPaused, listening, transcript, submitting,
              task, urlApplicant, answerRows, interviewStatus, alert,
              statusIssued, clean, advances, intervals, reached,
              micPermission, isMicrophoneAvailable,
              browserSupportsSpeechRecognition, orphan>>
micVars == <<micPermission, isMicrophoneAvailable, browserSupportsSpeechRecognition>>
formVars == <<form, review, desk>>
vars == <<genVars, schemaVars, walkVars, formVars>>

\* ------------------------------------------------------- JSON values
\* A JSON value as zod sees it: its typeof tag and, for a string, its text.
JsString(s) == [t |-> "string", v |-> s]
JsNumber == [t |-> "number", v |-> "7"]
JsUndefined == [t |-> "undefined", v |-> ""]

Difficulties == {"Easy", "Intermediate", "Advanced"}

\* One element of a candidate questions array.  extra: the element carries a
\* key the schema does not name.
JsItem(q, d, x) == [t |-> "object", question |-> q, difficulty |-> d, extra |-> x]
NotAnObject == [t |-> "string", question |-> JsUndefined,
                difficulty |-> JsUndefined, extra |-> FALSE]

Items ==
    { JsItem(JsString("Q1"), JsString("Easy"), FALSE),
      JsItem(JsString("Q2"), JsString("Advanced"), TRUE),
      JsItem(JsString("Q3"), JsString("Intermediate"), FALSE),
      JsItem(JsString("Q4"), JsString("easy"), FALSE),
      JsItem(JsString("Q5"), JsString("Hard"), FALSE),
      JsItem(JsString("Q6"), JsUndefined, FALSE),
      JsItem(JsString("Q7"), JsNumber, FALSE),
      JsItem(JsNumber, JsString("Easy"), FALSE),
      JsItem(JsUndefined, JsString("Advanced"), FALSE),
      NotAnObject }

SeqsUpTo(S, n) == UNION { [1..k -> S] : k \in 0..n }

\* The body of a response: t is the typeof of the body, qt the typeof of its
\* questions key, items the elements when that key holds an array.
JsData(t, qt, items) == [t |-> t, qt |-> qt, items |-> items]

Payloads ==
    { JsData("object", "array", s) : s \in SeqsUpTo(Items, MaxItems) }
    \cup { JsData("object", "undefined", <<>>), JsData("object", "string", <<>>),
           JsData("object", "object", <<>>), JsData("array", "undefined", <<>>) }

\* ------------------------------------------------- Questions.jsx: schema
\* One zod issue: the element it is about (0: the body or the array itself),
\* the key within the element, and zod's issue code.
Issue(i, key, code) == [index |-> i, key |-> key, code |-> code]

\* z.string(): the value's typeof is string.
ZodStringIssues(v, i, key) ==
    IF v.t = "string" THEN {} ELSE {Issue(i, key, "invalid_type")}

\* z.enum([...]): a string that is one of the listed values, compared exactly.
ZodEnumIssues_AnyCase(v, i, key) ==
    IF v.t = "string" /\ v.v \in Difficulties \cup {"easy", "intermediate", "advanced"}
    THEN {} ELSE {Issue(i, key, "invalid_enum_value")}

ZodEnumIssues(v, i, key) ==
    IF v.t # "string" THEN {Issue(i, key, "invalid_type")}
    ELSE IF v.v \in Difficulties THEN {} ELSE {Issue(i, key, "invalid_enum_value")}

\* z.object({question, difficulty}) on one element.
ZodItemIssues(item, i) ==
    IF item.t # "object" THEN {Issue(i, "", "invalid_type")}
    ELSE ZodStringIssues(item.question, i, "question")
         \cup ZodEnumIssues(item.difficulty, i, "difficulty")

\* z.array(...).nonempty(): an array, of at least one element, each parsed.
ZodArrayIssues(data) ==
    IF data.qt # "array" THEN {Issue(0, "questions", "invalid_type")}
    ELSE (IF Len(data.items) < 1 THEN {Issue(0, "questions", "too_small")} ELSE {})
         \cup UNION { ZodItemIssues(data.items[i], i) : i \in 1..Len(data.items) }

\* The parsed output keeps only the keys the schema names.
Stripped(item) == [question |-> item.question.v, difficulty |-> item.difficulty.v]

\* QuestionSchema.safeParse(data)
SafeParse(data) ==
    LET issues == IF data.t # "object" THEN {Issue(0, "", "invalid_type")}
                  ELSE ZodArrayIssues(data)
    IN IF issues = {}
       THEN [success |-> TRUE,
             questions |-> [i \in 1..Len(data.items) |-> Stripped(data.items[i])]]
       ELSE [success |-> FALSE, questions |-> <<>>]

\* -------------------------------------- Questions.jsx: generation requests
Roles == {"Nurse", "Developer"}
\* location.state carries no interviewJobRole
NoRole == ""
Pages == 1..NumPages

\* setGenerationError(null)
Null == "null"
SchemaMessage == "Questions did not match expected schema"
GenericMessage == "Failed to generate questions"
NetworkMessage == "Failed to fetch"
ServerMessage == "{error: Model returned invalid schema}"

\* What the proxy may answer in this model: a body for a 200, the text of a
\* non-2xx answer, or no answer at all (fetch itself rejects).
ModelOutputs ==
    { JsData("object", "array", <<JsItem(JsString("Q1"), JsString("Easy"), FALSE),
                                  JsItem(JsString("Q2"), JsString("Advanced"), TRUE)>>),
      JsData("object", "array", <<JsItem(JsString("Q3"), JsString("Intermediate"), FALSE)>>),
      JsData("object", "array", <<JsItem(JsString("Q1"), JsString("Easy"), FALSE),
                                  JsItem(JsString("Q5"), JsString("Hard"), FALSE)>>),
      JsData("object", "array", <<>>),
      JsData("array", "undefined", <<>>) }
NoData == JsData("undefined", "undefined", <<>>)

Responses ==
    { [kind |-> "ok", text |-> "", data |-> d] : d \in ModelOutputs }
    \cup { [kind |-> "http", text |-> t, data |-> NoData] : t \in {"", ServerMessage} }
    \cup { [kind |-> "neterr", text |-> "", data |-> NoData] }
NoResponse == [kind |-> "none", text |-> "", data |-> NoData]

\* The promise fetchAIQuestions(job_role) returns, before the proxy answers.
fetchAIQuestions(job_role) ==
    [role |-> job_role, state |-> "pending", value |-> <<>>, message |-> "",
     response |-> NoResponse]

Rejected(pr, resp, msg) ==
    [pr EXCEPT !.state = "rejected", !.message = msg, !.response = resp]

\* A variant of the .then callback that keeps the elements of a refused body
\* that parse on their own.
fetchSettled_KeepValidItems(pr, resp) ==
    IF resp.kind = "neterr" THEN Rejected(pr, resp, NetworkMessage)
    ELSE IF resp.kind = "http"
    THEN Rejected(pr, resp, IF resp.text # "" THEN resp.text ELSE GenericMessage)
    ELSE LET ok == { i \in 1..Len(resp.data.items) :
                       ZodItemIssues(resp.data.items[i], i) = {} }
             kept == [i \in 1..Cardinality(ok) |->
                        Stripped(resp.data.items[
                          CHOOSE j \in ok : Cardinality({k \in ok : k < j}) = i - 1])]
         IN [pr EXCEPT !.state = "resolved", !.value = kept, !.response = resp]

\* The .then callback of fetchAIQuestions, and fetch's own rejection.
fetchSettled(pr, resp) ==
    IF resp.kind = "neterr" THEN Rejected(pr, resp, NetworkMessage)
    ELSE IF resp.kind = "http"
    THEN Rejected(pr, resp, IF resp.text # "" THEN resp.text ELSE GenericMessage)
    ELSE LET p == SafeParse(resp.data)
         IN IF ~p.success THEN Rejected(pr, resp, SchemaMessage)
            ELSE [pr EXCEPT !.state = "resolved", !.value = p.questions,
                            !.response = resp]

StartFetch(job_role) ==
    LET k == Len(promises) + 1
    IN [cache |-> [questionPromiseCache EXCEPT ![job_role] = k],
        promises |-> Append(promises, fetchAIQuestions(job_role)),
        promise |-> k]

\* A variant without the has() test: every call starts a request.
getQuestionPromise_NoHas(job_role) == StartFetch(job_role)

\* A variant that drops an entry it finds rejected and starts again.
getQuestionPromise_EvictRejected(job_role) ==
    IF questionPromiseCache[job_role] = 0
       \/ promises[questionPromiseCache[job_role]].state = "rejected"
    THEN StartFetch(job_role)
    ELSE [cache |-> questionPromiseCache, promises |-> promises,
          promise |-> questionPromiseCache[job_role]]

\* getQuestionPromise(job_role): the cache and the promises after the call,
\* and the promise handed to the caller.
getQuestionPromise(job_role) ==
    IF questionPromiseCache[job_role] = 0
    THEN StartFetch(job_role)
    ELSE [cache |-> questionPromiseCache, promises |-> promises,
          promise |-> questionPromiseCache[job_role]]

NoObservation == [kind |-> "none", value |-> <<>>, message |-> ""]
\* addAIQuestion is not running
NotAdding == [pc |-> "idle", text |-> ""]
Unmounted ==
    [mounted |-> FALSE, role |-> NoRole, generating |-> FALSE,
     generationError |-> Null, aiQuestions |-> <<>>, awaiting |-> 0,
     observed |-> NoObservation, adding |-> NotAdding, promoted |-> {}]

\* <Questions/> is rendered for an interview: the state of a fresh instance.
Mount(p, role) ==
    /\ UNCHANGED <<schemaVars, walkVars, formVars>>
    /\ ~pages[p].mounted
    /\ pages' = [pages EXCEPT ![p] = [Unmounted EXCEPT !.mounted = TRUE, !.role = role]]
    /\ UNCHANGED <<questionPromiseCache, promises>>

\* generateAIQuestions up to its await.  The button is disabled while
\* generating and when the interview has no job role.
GenerateAIQuestions(p) ==
    /\ UNCHANGED <<schemaVars, walkVars, formVars>>
    /\ pages[p].mounted /\ ~pages[p].generating /\ pages[p].role # NoRole
    /\ LET got == getQuestionPromise(pages[p].role)
       IN /\ Len(got.promises) <= MaxPromises
          /\ questionPromiseCache' = got.cache
          /\ promises' = got.promises
          /\ pages' = [pages EXCEPT ![p].generating = TRUE,
                                    ![p].generationError = Null,
                                    ![p].awaiting = got.promise]

\* The proxy answers request k (or the connection fails).
ServerResponds(k, resp) ==
    /\ UNCHANGED <<schemaVars, walkVars, formVars>>
    /\ k \in 1..Len(promises) /\ promises[k].state = "pending"
    /\ promises' = [promises EXCEPT ![k] = fetchSettled(promises[k], resp)]
    /\ UNCHANGED <<questionPromiseCache, pages>>

\* generateAIQuestions after its await: try, catch and finally.
GenerateSettled(p) ==
    /\ UNCHANGED <<schemaVars, walkVars, formVars>>
    /\ pages[p].awaiting # 0
    /\ LET pr == promises[pages[p].awaiting]
       IN /\ pr.state # "pending"
          /\ pages' = [pages EXCEPT ![p] =
               IF pr.state = "resolved"
               THEN [@ EXCEPT !.aiQuestions = pr.value, !.generating = FALSE,
                              !.awaiting = 0,
                              !.observed = [kind |-> "fulfilled", value |-> pr.value,
                                            message |-> ""]]
               ELSE [@ EXCEPT !.generationError =
                                 IF pr.message # "" THEN pr.message ELSE GenericMessage,
                              !.generating = FALSE, !.awaiting = 0,
                              !.observed = [kind |-> "rejected", value |-> <<>>,
                                            message |-> pr.message]]]
    /\ UNCHANGED <<questionPromiseCache, promises>>

\* addAIQuestion(questionText, difficulty) up to `await createQuestion(...)`,
\* from the Quick Add button of suggestion i.  One quick-add of an instance
\* is followed at a time.
addAIQuestion(p, i) ==
    /\ UNCHANGED <<schemaVars, walkVars, formVars>>
    /\ pages[p].mounted /\ pages[p].adding.pc = "idle"
    /\ i \in 1..Len(pages[p].aiQuestions)
    /\ pages' = [pages EXCEPT ![p].adding =
                   [pc |-> "create", text |-> pages[p].aiQuestions[i].question]]
    /\ UNCHANGED <<questionPromiseCache, promises>>

\* createQuestion succeeded: the Question row exists, and
\* `await getQuestionsByInterview(interviewId)` is issued.
CreateQuestionSaved(p) ==
    /\ UNCHANGED <<schemaVars, walkVars, formVars>>
    /\ pages[p].adding.pc = "create"
    /\ pages' = [pages EXCEPT ![p].adding.pc = "refresh",
                              ![p].promoted = @ \cup {pages[p].adding.text}]
    /\ UNCHANGED <<questionPromiseCache, promises>>

\* createQuestion failed: catch (alert).
CreateQuestionFailed(p) ==
    /\ UNCHANGED <<schemaVars, walkVars, formVars>>
    /\ pages[p].adding.pc = "create"
    /\ pages' = [pages EXCEPT ![p].adding = NotAdding]
    /\ UNCHANGED <<questionPromiseCache, promises>>

\* prev.filter(q => q.question !== questionText)
WithoutText(list, text) == SelectSeq(list, LAMBDA q : q.question # text)

\* The refresh succeeded: setQuestions, then the suggestion is filtered out.
QuestionsRefreshed(p) ==
    /\ UNCHANGED <<schemaVars, walkVars, formVars>>
    /\ pages[p].adding.pc = "refresh"
    /\ pages' = [pages EXCEPT ![p].adding = NotAdding,
                              ![p].aiQuestions = WithoutText(@, pages[p].adding.text)]
    /\ UNCHANGED <<questionPromiseCache, promises>>

\* The refresh failed: catch (alert); the filter is not reached.
QuestionsRefreshFailed(p) ==
    /\ UNCHANGED <<schemaVars, walkVars, formVars>>
    /\ pages[p].adding.pc = "refresh"
    /\ pages' = [pages EXCEPT ![p].adding = NotAdding]
    /\ UNCHANGED <<questionPromiseCache, promises>>

GenInit ==
    /\ questionPromiseCache = [r \in Roles |-> 0]
    /\ promises = <<>>
    /\ pages = [p \in Pages |-> Unmounted]

\* ------------------------------------------------- the schema on its own
NotParsed == [success |-> FALSE, questions |-> <<>>, done |-> FALSE]

\* The proxy is not serving a request.
NoReply == [status |-> 0, questions |-> <<>>, error |-> ""]
ServerIdle == request = NoRole /\ reply = NoReply

SchemaInit ==
    /\ candidate \in Payloads
    /\ parsed = NotParsed
    /\ ServerIdle

\* const parsed = QuestionSchema.safeParse(data)
Parse ==
    /\ UNCHANGED <<genVars, walkVars, formVars>>
    /\ ~parsed.done
    /\ parsed' = [success |-> SafeParse(candidate).success,
                  questions |-> SafeParse(candidate).questions, done |-> TRUE]
    /\ UNCHANGED <<candidate, request, reply>>

\* ------------------------------------- llm-api-server/server.js: endpoint
\* what withStructuredOutput hands back for the request
ModelResults == Payloads

\* app.all("/api/generate-question"): the model answered with `candidate`.
GenerateQuestion ==
    /\ UNCHANGED <<genVars, walkVars, formVars>>
    /\ reply = NoReply
    /\ reply' =
         IF request = NoRole
         THEN [status |-> 400, questions |-> <<>>,
               error |-> "Role Description is required"]
         ELSE IF ~SafeParse(candidate).success
         THEN [status |-> 502, questions |-> <<>>,
               error |-> "Model returned invalid schema"]
         ELSE [status |-> 200, questions |-> SafeParse(candidate).questions,
               error |-> ""]
    /\ UNCHANGED <<candidate, parsed, request>>

\* app.all("/api/generate-question"): chain.invoke threw.
GenerateQuestionThrows ==
    /\ UNCHANGED <<genVars, walkVars, formVars>>
    /\ reply = NoReply
    /\ request # NoRole
    /\ reply' = [status |-> 500, questions |-> <<>>,
                 error |-> "Failed to generate interview questions, ensure role description and interview is added first."]
    /\ UNCHANGED <<candidate, parsed, request>>

ServerInit ==
    /\ candidate \in ModelResults
    /\ parsed = NotParsed
    /\ request \in Roles \cup {NoRole}
    /\ reply = NoReply

SchemaIdle ==
    /\ candidate = JsData("object", "undefined", <<>>) /\ parsed = NotParsed
    /\ ServerIdle

\* ------------------------------------------------------ the REST store
Utterances == {"I am a developer"}
Transcripts == SeqsUpTo(Utterances, MaxSpeech)

\* The store assigns the ids; the list of an interview is in creation order.
QuestionIdOf(i) == 10 + i
QuestionIds == { QuestionIdOf(i) : i \in 1..MaxQuestions }
\* an id no question of the interview has
UnknownId == QuestionIdOf(0)

\* The interviewId of the link; its questions are the list above.
interviewId == 1
\* question.interview_id of a row getQuestionsByInterview(interviewId) returns
QuestionInterview(qid) == IF qid \in QuestionIds THEN interviewId ELSE 0
\* The applicant rows of the store: applicant a was invited to interview a.
Applicants == {1, 2}
ApplicantInterview(a) == a

\* applicant_answer rows of this applicant and interview, as a bag: the
\* number of rows with a given question_id and answer.
AnswerRow(qid, answer) == [question_id |-> qid, answer |-> answer]
RowKeys == { AnswerRow(q, a) : q \in QuestionIds, a \in Transcripts }

RECURSIVE BagSize(_, _)
BagSize(bag, keys) ==
    IF keys = {} THEN 0
    ELSE LET k == CHOOSE x \in keys : TRUE
         IN bag[k] + BagSize(bag, keys \ {k})

TotalRows == BagSize(answerRows, RowKeys)
RowsFor(qid) == BagSize(answerRows, { k \in RowKeys : k.question_id = qid })

\* A variant that keeps one row per question: the new answer replaces the
\* rows the question has.
submitApplicantAnswer_Upsert(answerData) ==
    [k \in RowKeys |->
        IF k = answerData THEN 1
        ELSE IF k.question_id = answerData.question_id THEN 0
        ELSE answerRows[k]]

\* A variant that stores no row for an empty answer.
submitApplicantAnswer_SkipEmpty(answerData) ==
    IF answerData.answer = <<>> THEN answerRows
    ELSE [answerRows EXCEPT ![answerData] = @ + 1]

\* submitApplicantAnswer(answerData) answered 2xx: POST /applicant_answer
submitApplicantAnswer(answerData) ==
    [answerRows EXCEPT ![answerData] = @ + 1]

\* A variant that takes the status back when it is already the one sent.
updateApplicantStatus_Revert(status) ==
    IF interviewStatus = status THEN "Not Started" ELSE status

\* updateApplicantStatus(applicantId, status) answered 2xx: PATCH /applicant
updateApplicantStatus(status) == status

\* getApplicant(applicantId): GET /applicant?id=eq.<id> answers with the
\* matching rows, an array.
getApplicant ==
    [t |-> "array", items |-> <<[interview_status |-> interviewStatus]>>]

\* ------------------------------------ the interview walk (applicant side)
Welcome == [screen |-> "welcome", qid |-> 0]
Complete == [screen |-> "complete", qid |-> 0]
QuestionRoute(qid) == [screen |-> "question", qid |-> qid]

\* questions.findIndex(q => q.id === parseInt(questionId)), 0-based, -1: none
findIndex(qid) ==
    IF \E i \in 1..Len(questions) : questions[i] = qid
    THEN (CHOOSE i \in 1..Len(questions) : questions[i] = qid) - 1
    ELSE -1

currentQuestionIndex == findIndex(route.qid)

\* A variant that takes the question before the last for the last as well.
isLastQuestion_OffByOne(idx) == idx >= Len(questions) - 2

\* isLastQuestion, for the index of one render
isLastQuestion(idx) == idx = Len(questions) - 1

\* A variant that navigates to the question it is on.
nextQuestionId_Same(idx) == questions[idx + 1]

\* questions[currentQuestionIndex + 1].id (the list is 1-based here)
nextQuestionId(idx) == questions[idx + 2]

\* A variant that renders the controls for every question route.
QuestionShown_NoCheck == route.screen = "question"

\* const answerToSubmit = transcript || ''
answerToSubmit(t) == IF t = <<>> THEN <<>> ELSE t

\* The question screen renders its controls: the question was found.
\* (With no current question the component returns "Question Not Found".)
QuestionShown == route.screen = "question" /\ currentQuestionIndex >= 0

\* The question screen renders the recording control and Next: neither the
\* "Browser doesn't support speech recognition" nor the "Microphone access
\* is blocked" screen is returned instead.
ControlsShown ==
    /\ QuestionShown
    /\ browserSupportsSpeechRecognition
    /\ isMicrophoneAvailable

NoTask == [pc |-> "idle", idx |-> -1, qid |-> 0, isLast |-> FALSE, answer |-> <<>>,
           wasListening |-> FALSE]

\* The useEffect on [questionId, resetTranscript, answers]
\*   setIsPaused(true); resetTranscript()
QuestionEffect == isPaused' = TRUE /\ transcript' = <<>> /\ intervals' = <<>>

\* A fresh <InterviewQuestion/>: useState defaults, then the effect.
FreshQuestionComponent == submitting' = FALSE /\ QuestionEffect

\* The history of a page that was loaded at a question URL is not followed.
NoHistory == -1

\* navigate(url) pushes the URL of the n-th question on the history.
Reach(n) == IF reached # NoHistory /\ reached < n THEN n ELSE reached

\* TakeInterviewLayout mounts on a page load of the link and fetchData
\* loads the list, to which the recruiter has added questions since:
\* setQuestions(questionsResponse).
fetchData(n) ==
    /\ UNCHANGED <<genVars, schemaVars, formVars, orphan, micPermission,
                   browserSupportsSpeechRecognition>>
    /\ task.pc = "idle"
    /\ n > Len(questions)
    /\ questions' = [i \in 1..n |-> QuestionIdOf(i)]
    /\ route' = Welcome
    /\ reached' = 0
    /\ FreshQuestionComponent
    /\ listening' = FALSE
    /\ alert' = FALSE
    /\ isMicrophoneAvailable' = TRUE
    /\ clean' = FALSE /\ advances' = 0 /\ statusIssued' = 0
    /\ UNCHANGED <<task, urlApplicant, answerRows, interviewStatus>>

\* A variant that loads the list again and finds its last question deleted.
startInterview_Refetch ==
    /\ UNCHANGED <<genVars, schemaVars, formVars, orphan, micVars>>
    /\ route.screen = "welcome"
    /\ Len(questions) > 0
    /\ questions' = IF Len(questions) > 1
                    THEN SubSeq(questions, 1, Len(questions) - 1)
                    ELSE questions
    /\ route' = QuestionRoute(questions[1])
    /\ reached' = Reach(1)
    /\ FreshQuestionComponent
    /\ alert' = FALSE
    /\ statusIssued' = 0 /\ clean' = TRUE /\ advances' = 0
    /\ UNCHANGED <<listening, task, urlApplicant, answerRows, interviewStatus>>

\* TakeInterviewWelcome.startInterview
startInterview ==
    /\ UNCHANGED <<genVars, schemaVars, formVars, orphan, micVars>>
    /\ route.screen = "welcome"
    /\ Len(questions) > 0
    /\ route' = QuestionRoute(questions[1])
    /\ reached' = Reach(1)
    /\ FreshQuestionComponent
    /\ alert' = FALSE
    /\ statusIssued' = 0 /\ clean' = TRUE /\ advances' = 0
    /\ UNCHANGED <<questions, listening, task, urlApplicant, answerRows,
                   interviewStatus>>

\* The applicant opens the interview link again: the page starts over on
\* the welcome route.
OpenInterviewLink ==
    /\ UNCHANGED <<genVars, schemaVars, formVars, orphan, micPermission,
                   browserSupportsSpeechRecognition>>
    /\ isMicrophoneAvailable' = TRUE
    /\ route.screen # "welcome"
    /\ task.pc = "idle"
    /\ route' = Welcome
    /\ reached' = 0
    /\ FreshQuestionComponent
    /\ listening' = FALSE
    /\ alert' = FALSE
    /\ clean' = FALSE /\ advances' = 0 /\ statusIssued' = 0
    /\ UNCHANGED <<questions, task, urlApplicant, answerRows, interviewStatus>>

\* The applicant goes back or forward to the URL of a question the page has
\* navigated to.  Between two question URLs the component instance stays (same
\* route element), so its state is kept and only the effect runs; from
\* another screen it is fresh.
OpenQuestionUrl(qid) ==
    /\ UNCHANGED <<genVars, schemaVars, formVars, orphan, micVars>>
    /\ route # QuestionRoute(qid)
    /\ findIndex(qid) >= 0 /\ findIndex(qid) < reached
    /\ route.screen # "question" => task.pc = "idle"
    /\ route' = QuestionRoute(qid)
    /\ IF route.screen = "question"
       THEN QuestionEffect /\ UNCHANGED submitting
       ELSE FreshQuestionComponent
    /\ clean' = FALSE /\ advances' = 0 /\ statusIssued' = 0
    /\ UNCHANGED <<questions, listening, task, urlApplicant, answerRows,
                   interviewStatus, alert, reached>>

\* The applicant loads the URL of a question (typed, or a stored link): the
\* page starts over, with whatever question id the URL carries.
LoadQuestionUrl(qid) ==
    /\ UNCHANGED <<genVars, schemaVars, formVars, orphan, micPermission,
                   browserSupportsSpeechRecognition>>
    /\ isMicrophoneAvailable' = TRUE
    /\ route # QuestionRoute(qid)
    /\ task.pc = "idle"
    /\ route' = QuestionRoute(qid)
    /\ reached' = NoHistory
    /\ FreshQuestionComponent
    /\ listening' = FALSE
    /\ alert' = FALSE
    /\ clean' = FALSE /\ advances' = 0 /\ statusIssued' = 0
    /\ UNCHANGED <<questions, task, urlApplicant, answerRows, interviewStatus>>

\* getRecordingButton(): the control the question screen renders.
getRecordingButton ==
    IF ~listening /\ isPaused /\ transcript = <<>> THEN "Start"
    ELSE IF listening /\ ~isPaused THEN "Pause"
    ELSE IF ~listening /\ isPaused /\ transcript # <<>> THEN "Continue"
    ELSE "none"

\* The recording intervals: one sequence of utterances per interval, an
\* interval that heard nothing is dropped when it ends.
Closed(iv) ==
    IF iv # <<>> /\ iv[Len(iv)] = <<>> THEN SubSeq(iv, 1, Len(iv) - 1) ELSE iv
Heard(iv, u) ==
    IF iv = <<>> THEN << <<u>> >> ELSE [iv EXCEPT ![Len(iv)] = Append(@, u)]

\* The recording handlers.  The engine's listening flag is taken to follow
\* startListening / stopListening at once; with continuous: true the
\* engine keeps the transcript over stopListening and startListening.
\* SpeechRecognition.startListening({continuous: true, language: 'en-US'}):
\* the engine listens when the browser lets it use the microphone; when it
\* does not, the engine reports the microphone as not available.
startListening ==
    /\ listening' = (micPermission = "granted")
    /\ isMicrophoneAvailable' = (micPermission = "granted")
    /\ intervals' = IF micPermission = "granted" THEN Append(intervals, <<>>)
                    ELSE intervals

\* getRecordingButton shows Start: !listening && isPaused && !transcript
handleStartRecording ==
    /\ UNCHANGED <<genVars, schemaVars, formVars, orphan, micPermission,
                   browserSupportsSpeechRecognition>>
    /\ ControlsShown
    /\ ~listening /\ isPaused /\ transcript = <<>>
    /\ isPaused' = FALSE /\ startListening
    /\ UNCHANGED <<questions, route, transcript, submitting, task, urlApplicant,
                   answerRows, interviewStatus, alert, statusIssued, clean,
                   advances, reached>>

\* getRecordingButton shows Pause: listening && !isPaused
handlePauseRecording ==
    /\ UNCHANGED <<genVars, schemaVars, formVars, orphan, micVars>>
    /\ ControlsShown
    /\ listening /\ ~isPaused
    /\ isPaused' = TRUE /\ listening' = FALSE
    /\ intervals' = Closed(intervals)
    /\ UNCHANGED <<questions, route, transcript, submitting, task, urlApplicant,
                   answerRows, interviewStatus, alert, statusIssued, clean,
                   advances, reached>>

\* A variant whose startListening starts a new transcript.
handleContinueRecording_Resets ==
    /\ UNCHANGED <<genVars, schemaVars, formVars, orphan, micPermission,
                   browserSupportsSpeechRecognition>>
    /\ ControlsShown
    /\ ~listening /\ isPaused /\ transcript # <<>>
    /\ isPaused' = FALSE /\ startListening
    /\ transcript' = <<>>
    /\ UNCHANGED <<questions, route, submitting, task, urlApplicant,
                   answerRows, interviewStatus, alert, statusIssued, clean,
                   advances, reached>>

\* getRecordingButton shows Continue: !listening && isPaused && transcript
handleContinueRecording ==
    /\ UNCHANGED <<genVars, schemaVars, formVars, orphan, micPermission,
                   browserSupportsSpeechRecognition>>
    /\ ControlsShown
    /\ ~listening /\ isPaused /\ transcript # <<>>
    /\ isPaused' = FALSE /\ startListening
    /\ UNCHANGED <<questions, route, transcript, submitting, task, urlApplicant,
                   answerRows, interviewStatus, alert, statusIssued, clean,
                   advances, reached>>

\* The speech engine hears an utterance while it listens.
Hears(u) ==
    /\ UNCHANGED <<genVars, schemaVars, formVars, orphan, micVars>>
    /\ listening
    /\ transcript' = Append(transcript, u)
    /\ intervals' = Heard(intervals, u)
    /\ UNCHANGED <<questions, route, isPaused, listening, submitting, task,
                   urlApplicant, answerRows, interviewStatus, alert, statusIssued,
                   clean, advances, reached>>

\* The applicant says up to MaxSpeech utterances on a question,
Speak(u) ==
    /\ Len(transcript) < MaxSpeech
    /\ Hears(u)

\* and up to MaxTalk where only the recording is followed.
SpeakOn(u) ==
    /\ Len(transcript) < MaxTalk
    /\ Hears(u)

\* goToNextQuestion up to `await submitApplicantAnswer(answerData)`.  The
\* closure holds the render's questionId, index, isLastQuestion and transcript.
goToNextQuestion ==
    /\ UNCHANGED <<genVars, schemaVars, formVars, orphan, micVars>>
    /\ ControlsShown
    /\ ~submitting
    /\ TotalRows < MaxRows
    /\ IF listening
       THEN isPaused' = TRUE /\ listening' = FALSE /\ intervals' = Closed(intervals)
       ELSE UNCHANGED <<isPaused, listening, intervals>>
    /\ submitting' = TRUE
    /\ task' = [pc |-> "awaitAnswer", idx |-> currentQuestionIndex,
                qid |-> route.qid, isLast |-> isLastQuestion(currentQuestionIndex),
                answer |-> answerToSubmit(transcript), wasListening |-> listening]
    /\ alert' = FALSE
    /\ UNCHANGED <<questions, route, transcript, urlApplicant, answerRows,
                   interviewStatus, statusIssued, clean, advances, reached>>

\* The tail of goToNextQuestion, after try/catch/finally:
\*   if (!isLastQuestion) navigate(next question) else navigate(complete)
\* The effect runs when the route's questionId changes.
NavigateOn ==
    /\ route' = IF task.isLast THEN Complete
                ELSE QuestionRoute(nextQuestionId(task.idx))
    /\ reached' = IF task.isLast THEN reached ELSE Reach(task.idx + 2)
    /\ IF ~task.isLast /\ route # QuestionRoute(nextQuestionId(task.idx))
       THEN QuestionEffect
       ELSE UNCHANGED <<isPaused, transcript, intervals>>

\* The answer POST succeeded and this is not the last question:
\* setAnswers, finally, navigate to the next question.
AnswerSavedNext ==
    /\ UNCHANGED <<genVars, schemaVars, formVars, orphan, micVars>>
    /\ task.pc = "awaitAnswer" /\ ~task.isLast
    /\ answerRows' = submitApplicantAnswer(AnswerRow(task.qid, task.answer))
    /\ submitting' = FALSE
    /\ route' = QuestionRoute(nextQuestionId(task.idx))
    /\ reached' = Reach(task.idx + 2)
    /\ QuestionEffect
    /\ task' = NoTask
    /\ advances' = IF clean THEN advances + 1 ELSE advances
    /\ UNCHANGED <<questions, listening, urlApplicant, interviewStatus, alert,
                   statusIssued, clean>>

\* The answer POST succeeded on the last question: setAnswers (the effect
\* runs on the new answers object), then `await updateApplicantStatus(...)`.
AnswerSavedLast ==
    /\ UNCHANGED <<genVars, schemaVars, formVars, orphan, micVars>>
    /\ task.pc = "awaitAnswer" /\ task.isLast
    /\ answerRows' = submitApplicantAnswer(AnswerRow(task.qid, task.answer))
    /\ QuestionEffect
    /\ task' = [task EXCEPT !.pc = "awaitStatus"]
    /\ statusIssued' = IF clean THEN statusIssued + 1 ELSE statusIssued
    /\ UNCHANGED <<questions, route, listening, submitting, urlApplicant,
                   interviewStatus, alert, clean, advances, reached>>

\* The answer POST failed: catch (alert), finally, and the navigation that
\* follows the try statement.
AnswerFailed ==
    /\ UNCHANGED <<genVars, schemaVars, formVars, orphan, micVars>>
    /\ task.pc = "awaitAnswer"
    /\ alert' = TRUE
    /\ submitting' = FALSE
    /\ NavigateOn
    /\ task' = NoTask
    /\ clean' = FALSE /\ advances' = 0 /\ statusIssued' = 0
    /\ UNCHANGED <<questions, listening, urlApplicant, answerRows, interviewStatus>>

\* The status PATCH succeeded: finally, navigate to the completion screen.
StatusSaved ==
    /\ UNCHANGED <<genVars, schemaVars, formVars, orphan, micVars>>
    /\ task.pc = "awaitStatus"
    /\ interviewStatus' = updateApplicantStatus("Completed")
    /\ submitting' = FALSE
    /\ route' = Complete
    /\ task' = NoTask
    /\ advances' = IF clean THEN advances + 1 ELSE advances
    /\ UNCHANGED <<questions, isPaused, listening, transcript, urlApplicant,
                   answerRows, alert, statusIssued, clean, intervals, reached>>

\* The status PATCH failed: catch (alert), finally, navigate to completion.
StatusFailed ==
    /\ UNCHANGED <<genVars, schemaVars, formVars, orphan, micVars>>
    /\ task.pc = "awaitStatus"
    /\ alert' = TRUE
    /\ submitting' = FALSE
    /\ route' = Complete
    /\ task' = NoTask
    /\ clean' = FALSE /\ advances' = 0 /\ statusIssued' = 0
    /\ UNCHANGED <<questions, isPaused, listening, transcript, urlApplicant,
                   answerRows, interviewStatus, intervals, reached>>

\* The applicant goes back to the welcome screen in the history of the
\* page: <InterviewQuestion/> unmounts, whatever call of goToNextQuestion it
\* has in flight goes on without it, and the engine keeps listening.
BackToWelcome ==
    /\ UNCHANGED <<genVars, schemaVars, formVars, micVars>>
    /\ route.screen = "question"
    /\ reached >= 1
    /\ orphan.pc = "idle"
    /\ orphan' = task
    /\ task' = NoTask
    /\ route' = Welcome
    /\ clean' = FALSE /\ advances' = 0 /\ statusIssued' = 0
    /\ UNCHANGED <<questions, isPaused, listening, transcript, submitting,
                   urlApplicant, answerRows, interviewStatus, alert, intervals,
                   reached>>

\* The navigation at the end of a call whose component has unmounted: the
\* route of the page changes all the same.  A question screen that is
\* mounted keeps its state and runs the effect; otherwise one mounts.
OrphanNavigates ==
    /\ route' = IF orphan.isLast THEN Complete
                ELSE QuestionRoute(nextQuestionId(orphan.idx))
    /\ reached' = IF orphan.isLast THEN reached ELSE Reach(orphan.idx + 2)
    /\ IF orphan.isLast
       THEN UNCHANGED <<isPaused, transcript, intervals, submitting>>
       ELSE IF route.screen # "question"
       THEN FreshQuestionComponent
       ELSE IF route # QuestionRoute(nextQuestionId(orphan.idx))
       THEN QuestionEffect /\ UNCHANGED submitting
       ELSE UNCHANGED <<isPaused, transcript, intervals, submitting>>

\* The POST of an unmounted component succeeded, not on the last question.
OrphanAnswerSavedNext ==
    /\ UNCHANGED <<genVars, schemaVars, formVars, micVars>>
    /\ orphan.pc = "awaitAnswer" /\ ~orphan.isLast
    /\ answerRows' = submitApplicantAnswer(AnswerRow(orphan.qid, orphan.answer))
    /\ OrphanNavigates
    /\ orphan' = NoTask
    /\ UNCHANGED <<questions, listening, task, urlApplicant, interviewStatus,
                   alert, statusIssued, clean, advances>>

\* The POST of an unmounted component succeeded on the last question.
OrphanAnswerSavedLast ==
    /\ UNCHANGED <<genVars, schemaVars, formVars, micVars>>
    /\ orphan.pc = "awaitAnswer" /\ orphan.isLast
    /\ answerRows' = submitApplicantAnswer(AnswerRow(orphan.qid, orphan.answer))
    /\ orphan' = [orphan EXCEPT !.pc = "awaitStatus"]
    /\ UNCHANGED <<questions, route, isPaused, listening, transcript, submitting,
                   task, urlApplicant, interviewStatus, alert, statusIssued,
                   clean, advances, intervals, reached>>

\* The POST of an unmounted component failed: the alert, the navigation.
OrphanAnswerFailed ==
    /\ UNCHANGED <<genVars, schemaVars, formVars, micVars>>
    /\ orphan.pc = "awaitAnswer"
    /\ alert' = TRUE
    /\ OrphanNavigates
    /\ orphan' = NoTask
    /\ UNCHANGED <<questions, listening, task, urlApplicant, answerRows,
                   interviewStatus, statusIssued, clean, advances>>

\* The PATCH of an unmounted component was answered, with 2xx or not.
OrphanStatusSettled ==
    /\ UNCHANGED <<genVars, schemaVars, formVars, micVars>>
    /\ orphan.pc = "awaitStatus"
    /\ \/ interviewStatus' = updateApplicantStatus("Completed") /\ UNCHANGED alert
       \/ alert' = TRUE /\ UNCHANGED interviewStatus
    /\ OrphanNavigates
    /\ orphan' = NoTask
    /\ UNCHANGED <<questions, listening, task, urlApplicant, answerRows,
                   statusIssued, clean, advances>>

\* The applicant closes the tab.  The page and the continuation of a
\* goToNextQuestion in flight are gone; the request of that call has been
\* sent, and the store answers it or never sees it.
TabClosed == [screen |-> "closed", qid |-> 0]
CloseTab ==
    /\ UNCHANGED <<genVars, schemaVars, formVars, orphan, micVars>>
    /\ route # TabClosed
    /\ route' = TabClosed
    /\ \/ UNCHANGED <<answerRows, interviewStatus>>
       \/ /\ task.pc = "awaitAnswer"
          /\ answerRows' = submitApplicantAnswer(AnswerRow(task.qid, task.answer))
          /\ UNCHANGED interviewStatus
       \/ /\ task.pc = "awaitStatus"
          /\ interviewStatus' = updateApplicantStatus("Completed")
          /\ UNCHANGED answerRows
    /\ task' = NoTask
    /\ reached' = 0
    /\ FreshQuestionComponent
    /\ listening' = FALSE
    /\ alert' = FALSE
    /\ clean' = FALSE /\ advances' = 0 /\ statusIssued' = 0
    /\ UNCHANGED <<questions, urlApplicant>>

\* The applicant allows the microphone in the browser's site settings.
GrantAccess ==
    /\ UNCHANGED <<genVars, schemaVars, formVars, orphan>>
    /\ micPermission = "denied"
    /\ micPermission' = "granted"
    /\ UNCHANGED <<questions, route, isPaused, listening, transcript, submitting,
                   task, urlApplicant, answerRows, interviewStatus, alert,
                   statusIssued, clean, advances, intervals, reached,
                   isMicrophoneAvailable, browserSupportsSpeechRecognition>>

\* Refresh Page on the "Microphone access is blocked" screen:
\* window.location.reload(), the page starts over at the same URL.
ReloadPage ==
    /\ UNCHANGED <<genVars, schemaVars, formVars, orphan, micPermission,
                   browserSupportsSpeechRecognition>>
    /\ QuestionShown /\ browserSupportsSpeechRecognition /\ ~isMicrophoneAvailable
    /\ task.pc = "idle"
    /\ isMicrophoneAvailable' = TRUE
    /\ reached' = NoHistory
    /\ FreshQuestionComponent
    /\ listening' = FALSE
    /\ alert' = FALSE
    /\ clean' = FALSE /\ advances' = 0 /\ statusIssued' = 0
    /\ UNCHANGED <<questions, route, task, urlApplicant, answerRows,
                   interviewStatus>>

\* --------------------------------------------- AddApplicants.jsx (edit)
FormClosed == [open |-> FALSE, isEditing |-> FALSE, applicantStatus |-> "Not Started"]

\* applicantData.interview_status || 'Not Started', read off what
\* getApplicant returned: an array has no such property.
LoadedStatus(applicantData) ==
    IF applicantData.t = "array" THEN "Not Started"
    ELSE applicantData.items[1].interview_status

\* The recruiter opens the form for the applicant; fetchApplicant succeeds.
fetchApplicant ==
    /\ UNCHANGED <<genVars, schemaVars, review, desk>>
    /\ ~form.open
    /\ form' = [open |-> TRUE, isEditing |-> TRUE,
                applicantStatus |-> LoadedStatus(getApplicant)]
    /\ UNCHANGED walkVars

\* fetchApplicant fails: the alert, and the useState defaults stay.
fetchApplicantFailed ==
    /\ UNCHANGED <<genVars, schemaVars, review, desk>>
    /\ ~form.open
    /\ form' = [open |-> TRUE, isEditing |-> TRUE, applicantStatus |-> "Not Started"]
    /\ UNCHANGED walkVars

\* handleSubmit with the required fields filled in, isEditing:
\* updateApplicant(applicantId, {..., interview_status: applicantStatus}),
\* then navigate('/applicants').
handleSubmit ==
    /\ UNCHANGED <<genVars, schemaVars, review, desk>>
    /\ form.open /\ form.isEditing
    /\ interviewStatus' = form.applicantStatus
    /\ form' = FormClosed
    /\ UNCHANGED <<questions, route, isPaused, listening, transcript, submitting,
                   task, urlApplicant, answerRows, alert, statusIssued, clean,
                   advances, intervals, reached, micVars, orphan>>

\* handleCancel, confirmed: navigate('/applicants').
handleCancel ==
    /\ UNCHANGED <<genVars, schemaVars, review, desk>>
    /\ form.open
    /\ form' = FormClosed
    /\ UNCHANGED walkVars

\* ------------------------------------------- ViewApplicantAnswers.jsx
NoRows == [k \in RowKeys |-> 0]

\* useState defaults: answers [], loading true.  failed records that the
\* load of the page was rejected.
ReviewClosed == [open |-> FALSE, loading |-> TRUE, answers |-> NoRows,
                 failed |-> FALSE]

\* getAnswersByApplicant(applicantId): the rows of the applicant
getAnswersByApplicant == answerRows

\* What the page renders below its header.  The component has no error
\* state, and its catch block is empty.
ReviewMessage(r) ==
    IF r.loading THEN "Loading answers..."
    ELSE IF r.answers = NoRows THEN "No Answers Found"
    ELSE "answers"

\* The recruiter opens the answers of the applicant: the component mounts
\* and the effect calls fetchApplicantAnswers.
OpenApplicantAnswers ==
    /\ UNCHANGED <<genVars, schemaVars, form, desk>>
    /\ ~review.open
    /\ review' = [ReviewClosed EXCEPT !.open = TRUE]
    /\ UNCHANGED walkVars

\* fetchApplicantAnswers, every call fulfilled: setAnswers, then finally.
fetchApplicantAnswers ==
    /\ UNCHANGED <<genVars, schemaVars, form, desk>>
    /\ review.open /\ review.loading
    /\ review' = [review EXCEPT !.loading = FALSE,
                                !.answers = getAnswersByApplicant]
    /\ UNCHANGED walkVars

\* fetchApplicantAnswers, one of the calls rejected: catch (error) { },
\* then finally.
fetchApplicantAnswersFailed ==
    /\ UNCHANGED <<genVars, schemaVars, form, desk>>
    /\ review.open /\ review.loading
    /\ review' = [review EXCEPT !.loading = FALSE, !.failed = TRUE]
    /\ UNCHANGED walkVars

\* Back to Applicants: the component unmounts.
handleBackToApplicants ==
    /\ UNCHANGED <<genVars, schemaVars, form, desk>>
    /\ review.open
    /\ review' = ReviewClosed
    /\ UNCHANGED walkVars

\* --------------------------------------------------------- Interviews.jsx
\* What fetch answers a count request with: it rejects, or it resolves with
\* a status and, from the store, a content-range header "first-last/total".
NoHeader == -1
CountResponses ==
    {[rejected |-> TRUE, ok |-> FALSE, total |-> NoHeader]}
    \cup {[rejected |-> FALSE, ok |-> FALSE, total |-> NoHeader]}
    \cup {[rejected |-> FALSE, ok |-> TRUE, total |-> t] :
              t \in {NoHeader} \cup 0..MaxCount}

Thrown == -2

\* A variant without the catch block.
getQuestionCount_NoCatch(resp) ==
    IF resp.rejected \/ ~resp.ok THEN Thrown
    ELSE IF resp.total = NoHeader THEN 0
    ELSE resp.total

\* getQuestionCount(interviewId), for the response fetch gave
getQuestionCount(resp) ==
    IF resp.rejected \/ ~resp.ok THEN 0
    ELSE IF resp.total = NoHeader THEN 0
    ELSE resp.total

\* getApplicantCount(interviewId), for the response fetch gave
getApplicantCount(resp) ==
    IF resp.rejected \/ ~resp.ok THEN 0
    ELSE IF resp.total = NoHeader THEN 0
    ELSE resp.total

\* One element of interviewsWithCounts: Promise.all of the two counts, and
\* the catch around it.
WithCounts(id, q, a) ==
    IF getQuestionCount(q) = Thrown \/ getApplicantCount(a) = Thrown
    THEN [id |-> id, questionCount |-> 0, applicantCount |-> 0]
    ELSE [id |-> id, questionCount |-> getQuestionCount(q),
          applicantCount |-> getApplicantCount(a)]

NoError == "null"
\* useState defaults: interviews [], loading true, error null.  responses
\* records what the count requests of the last load were answered with.
DeskClosed == [open |-> FALSE, loading |-> TRUE, interviews |-> <<>>,
               error |-> NoError, responses |-> <<>>]

\* The recruiter opens the dashboard (the effect calls fetchInterviews), or
\* presses Try Again on the error page: setLoading(true).  (Refresh on a
\* loaded list starts the same load; it is not followed.)
OpenInterviews ==
    /\ UNCHANGED <<genVars, schemaVars, form, review>>
    /\ ~desk.open \/ (~desk.loading /\ desk.error # NoError)
    /\ desk' = [desk EXCEPT !.open = TRUE, !.loading = TRUE]
    /\ UNCHANGED walkVars

\* One answer to each of the two count requests of an interview.
CountPairs == [q : CountResponses, a : CountResponses]

\* fetchInterviews, getInterviews fulfilled with n interviews; resps are
\* the answers to the count requests.
fetchInterviews ==
    /\ UNCHANGED <<genVars, schemaVars, form, review>>
    /\ desk.open /\ desk.loading
    /\ \E n \in 0..MaxInterviews : \E resps \in [1..n -> CountPairs] :
         desk' = [desk EXCEPT
                    !.loading = FALSE,
                    !.interviews = [i \in 1..n |->
                                       WithCounts(i, resps[i].q, resps[i].a)],
                    !.error = NoError,
                    !.responses = resps]
    /\ UNCHANGED walkVars

\* fetchInterviews, getInterviews rejected: setError, then finally.
fetchInterviewsFailed ==
    /\ UNCHANGED <<genVars, schemaVars, form, review>>
    /\ desk.open /\ desk.loading
    /\ desk' = [desk EXCEPT !.loading = FALSE,
                            !.error = "Please try again later."]
    /\ UNCHANGED walkVars

\* The recruiter leaves the dashboard: the component unmounts.
LeaveInterviews ==
    /\ UNCHANGED <<genVars, schemaVars, form, review>>
    /\ desk.open /\ ~desk.loading
    /\ desk' = DeskClosed
    /\ UNCHANGED walkVars

\* No recruiter page is open.
FormIdle == form = FormClosed /\ review = ReviewClosed /\ desk = DeskClosed

\* The link is open on the welcome route; nothing has been answered.
LinkOpened ==
    /\ questions \in { [i \in 1..n |-> QuestionIdOf(i)] : n \in 0..MaxQuestions }
    /\ route = Welcome
    /\ isPaused = TRUE /\ listening = FALSE /\ transcript = <<>>
    /\ submitting = FALSE /\ task = NoTask
    /\ answerRows = [k \in RowKeys |-> 0]
    /\ interviewStatus = "Not Started"
    /\ alert = FALSE
    /\ statusIssued = 0 /\ clean = FALSE /\ advances = 0
    /\ intervals = <<>> /\ reached = 0
    /\ orphan = NoTask

\* A browser with speech recognition that may use the microphone.
DeviceReady ==
    /\ micPermission = "granted"
    /\ isMicrophoneAvailable = TRUE
    /\ browserSupportsSpeechRecognition = TRUE

\* Any browser: the engine reports the microphone as available until a
\* start was refused.
DeviceInit ==
    /\ micPermission \in {"granted", "denied"}
    /\ isMicrophoneAvailable = TRUE
    /\ browserSupportsSpeechRecognition \in BOOLEAN

\* The link the recruiter sends: the applicant of the interview.
WalkInit ==
    /\ LinkOpened
    /\ DeviceReady
    /\ urlApplicant \in {a \in Applicants : ApplicantInterview(a) = interviewId}

\* A link with any applicant id of the store.
LinkInit ==
    /\ LinkOpened
    /\ DeviceReady
    /\ urlApplicant \in Applicants

WalkIdle == WalkInit /\ questions = <<>>

\* ------------------------------------------------------- specifications
\* The question generation layer.
InitGen == GenInit /\ SchemaIdle /\ WalkIdle /\ FormIdle
NextGen ==
    \/ \E p \in Pages, r \in Roles \cup {NoRole} : Mount(p, r)
    \/ \E p \in Pages : GenerateAIQuestions(p)
    \/ \E k \in 1..MaxPromises, resp \in Responses : ServerResponds(k, resp)
    \/ \E p \in Pages : GenerateSettled(p)
SpecGen == InitGen /\ [][NextGen]_vars

\* The question generation layer with the Quick Add of suggestions.  Every
\* instance of the page generates; Quick Add is followed on one of them.
QuickAddPages == {p \in Pages : \A q \in Pages : p <= q}
NextSuggest ==
    \/ \E p \in Pages, r \in Roles \cup {NoRole} : Mount(p, r)
    \/ \E p \in Pages : GenerateAIQuestions(p)
    \/ \E k \in 1..MaxPromises, resp \in Responses : ServerResponds(k, resp)
    \/ \E p \in Pages : GenerateSettled(p)
    \/ \E p \in QuickAddPages, i \in 1..MaxItems : addAIQuestion(p, i)
    \/ \E p \in QuickAddPages : CreateQuestionSaved(p)
    \/ \E p \in QuickAddPages : CreateQuestionFailed(p)
    \/ \E p \in QuickAddPages : QuestionsRefreshed(p)
    \/ \E p \in QuickAddPages : QuestionsRefreshFailed(p)
SpecSuggest == InitGen /\ [][NextSuggest]_vars

\* The schema applied to every candidate body.
InitSchema == SchemaInit /\ GenInit /\ WalkIdle /\ FormIdle
NextSchema == Parse
SpecSchema == InitSchema /\ [][NextSchema]_vars

\* The proxy service answering one request.
InitServer == ServerInit /\ GenInit /\ WalkIdle /\ FormIdle
NextServer ==
    \/ GenerateQuestion
    \/ GenerateQuestionThrows
SpecServer == InitServer /\ [][NextServer]_vars

\* One applicant's interview link.
InitWalk == WalkInit /\ FormIdle /\ GenInit /\ SchemaIdle
NextWalk ==
    \/ startInterview
    \/ OpenInterviewLink
    \/ \E q \in QuestionIds : OpenQuestionUrl(q)
    \/ \E q \in QuestionIds \cup {UnknownId} : LoadQuestionUrl(q)
    \/ handleStartRecording
    \/ handlePauseRecording
    \/ handleContinueRecording
    \/ \E u \in Utterances : Speak(u)
    \/ goToNextQuestion
    \/ AnswerSavedNext
    \/ AnswerSavedLast
    \/ AnswerFailed
    \/ StatusSaved
    \/ StatusFailed
SpecWalk == InitWalk /\ [][NextWalk]_vars

\* The interview link, and the recruiter's edit form for the same applicant.
NextRecruit ==
    \/ startInterview
    \/ OpenInterviewLink
    \/ \E q \in QuestionIds : OpenQuestionUrl(q)
    \/ \E q \in QuestionIds \cup {UnknownId} : LoadQuestionUrl(q)
    \/ handleStartRecording
    \/ handlePauseRecording
    \/ handleContinueRecording
    \/ \E u \in Utterances : Speak(u)
    \/ goToNextQuestion
    \/ AnswerSavedNext
    \/ AnswerSavedLast
    \/ AnswerFailed
    \/ StatusSaved
    \/ StatusFailed
    \/ fetchApplicant
    \/ fetchApplicantFailed
    \/ handleSubmit
    \/ handleCancel
    \/ OpenApplicantAnswers
    \/ fetchApplicantAnswers
    \/ fetchApplicantAnswersFailed
    \/ handleBackToApplicants
SpecRecruit == InitWalk /\ [][NextRecruit]_vars

\* The interview link, left at any point and opened again.
NextAbandon ==
    \/ startInterview
    \/ OpenInterviewLink
    \/ \E q \in QuestionIds : OpenQuestionUrl(q)
    \/ \E q \in QuestionIds \cup {UnknownId} : LoadQuestionUrl(q)
    \/ handleStartRecording
    \/ handlePauseRecording
    \/ handleContinueRecording
    \/ \E u \in Utterances : Speak(u)
    \/ goToNextQuestion
    \/ AnswerSavedNext
    \/ AnswerSavedLast
    \/ AnswerFailed
    \/ StatusSaved
    \/ StatusFailed
    \/ CloseTab
SpecAbandon == InitWalk /\ [][NextAbandon]_vars

\* The interview link, loaded again after the recruiter changed the list.
NextSession ==
    \/ startInterview
    \/ OpenInterviewLink
    \/ \E q \in QuestionIds : OpenQuestionUrl(q)
    \/ \E q \in QuestionIds \cup {UnknownId} : LoadQuestionUrl(q)
    \/ handleStartRecording
    \/ handlePauseRecording
    \/ handleContinueRecording
    \/ \E u \in Utterances : Speak(u)
    \/ goToNextQuestion
    \/ AnswerSavedNext
    \/ AnswerSavedLast
    \/ AnswerFailed
    \/ StatusSaved
    \/ StatusFailed
    \/ \E n \in 0..MaxQuestions : fetchData(n)
SpecSession == InitWalk /\ [][NextSession]_vars

\* The interview link with the way back to the welcome screen.
NextOverlap ==
    \/ startInterview
    \/ BackToWelcome
    \/ handleStartRecording
    \/ handlePauseRecording
    \/ handleContinueRecording
    \/ \E u \in Utterances : Speak(u)
    \/ goToNextQuestion
    \/ AnswerSavedNext
    \/ AnswerSavedLast
    \/ AnswerFailed
    \/ StatusSaved
    \/ StatusFailed
    \/ OrphanAnswerSavedNext
    \/ OrphanAnswerSavedLast
    \/ OrphanAnswerFailed
    \/ OrphanStatusSettled
SpecOverlap == InitWalk /\ [][NextOverlap]_vars

\* The interview link in any browser.
InitDevice ==
    /\ LinkOpened /\ DeviceInit
    /\ urlApplicant \in {a \in Applicants : ApplicantInterview(a) = interviewId}
    /\ FormIdle /\ GenInit /\ SchemaIdle
NextDevice ==
    \/ startInterview
    \/ OpenInterviewLink
    \/ \E q \in QuestionIds : OpenQuestionUrl(q)
    \/ \E q \in QuestionIds \cup {UnknownId} : LoadQuestionUrl(q)
    \/ handleStartRecording
    \/ handlePauseRecording
    \/ handleContinueRecording
    \/ \E u \in Utterances : Speak(u)
    \/ goToNextQuestion
    \/ AnswerSavedNext
    \/ AnswerSavedLast
    \/ AnswerFailed
    \/ StatusSaved
    \/ StatusFailed
    \/ GrantAccess
    \/ ReloadPage
SpecDevice == InitDevice /\ [][NextDevice]_vars

\* The recruiter's dashboard of interviews.
NextDesk ==
    \/ OpenInterviews
    \/ fetchInterviews
    \/ fetchInterviewsFailed
    \/ LeaveInterviews
SpecDesk == InitGen /\ [][NextDesk]_vars

\* The interview link opened with any applicant id.
InitLink == LinkInit /\ FormIdle /\ GenInit /\ SchemaIdle
SpecLink == InitLink /\ [][NextWalk]_vars

\* The recording of the questions, without the submission of answers.
NextCapture ==
    \/ startInterview
    \/ OpenInterviewLink
    \/ \E q \in QuestionIds \cup {UnknownId} : LoadQuestionUrl(q)
    \/ handleStartRecording
    \/ handlePauseRecording
    \/ handleContinueRecording
    \/ \E u \in Utterances : SpeakOn(u)
SpecCapture == InitWalk /\ [][NextCapture]_vars

\* ================================================================ claims

\* A body has the shape the schema describes: an object whose questions is
\* an array of at least one element, every element an object with a string
\* question and a difficulty that is exactly one of the three levels.
ShapeValid(data) ==
    /\ data.t = "object"
    /\ data.qt = "array"
    /\ Len(data.items) >= 1
    /\ \A i \in 1..Len(data.items) :
         /\ data.items[i].t = "object"
         /\ data.items[i].question.t = "string"
         /\ data.items[i].difficulty.t = "string"
         /\ data.items[i].difficulty.v \in Difficulties

WaitingOnPending(p) ==
    pages[p].awaiting # 0 /\ promises[pages[p].awaiting].state = "pending"
RequestsFor(r) == { k \in 1..Len(promises) : promises[k].role = r }

\* C1: whenever callers for a job role r wait on a request that has not
\* settled yet, exactly one request for r has been started, however many
\* callers there are.
C1_OneRequestWhileInFlight ==
    \A r \in Roles :
        (\E p \in Pages : pages[p].role = r /\ WaitingOnPending(p))
        => Cardinality(RequestsFor(r)) = 1

C1_TwoCallersInFlight ==
    \E p, q \in Pages :
        /\ p # q /\ pages[p].role = pages[q].role
        /\ WaitingOnPending(p) /\ WaitingOnPending(q)

\* C2: a step in which the answer write fails (the walker was awaiting the
\* POST and no row was added) leaves the route where it was and shows the
\* alert.
C2_NoAdvanceOnFailedWrite ==
    [][(task.pc = "awaitAnswer" /\ task'.pc = "idle" /\ answerRows' = answerRows)
       => (route' = route /\ alert')]_vars

\* C3: in a walk started at the first question in which no write failed and
\* the applicant only advanced, the index shown equals the number of
\* advances made so far (0, 1, ..., N-1 in that order), the completion
\* screen is reached by the N-th advance, and the status update has been
\* issued exactly once by then and never before the last question's advance.
C3_CleanWalkInOrder ==
    clean =>
        /\ route.screen # "welcome"
        /\ route.screen = "question" =>
             /\ currentQuestionIndex = advances
             /\ statusIssued = IF task.pc = "awaitStatus" THEN 1 ELSE 0
        /\ route.screen = "complete" =>
             /\ advances = Len(questions)
             /\ statusIssued = 1

C3_CleanWalkCompleted ==
    clean /\ route = Complete /\ Len(questions) >= 2

\* C4: the status update is issued only by the step in which the answer
\* write of the last question succeeds: the walker was awaiting that write,
\* its index is the last one, and the step adds that answer's row.
C4_StatusOnlyAfterLastAnswerSaved ==
    [][(task'.pc = "awaitStatus" /\ task.pc # "awaitStatus")
       => /\ task.pc = "awaitAnswer"
          /\ task.idx = Len(questions) - 1
          /\ task.qid = questions[Len(questions)]
          /\ answerRows'[AnswerRow(task.qid, task.answer)]
               = answerRows[AnswerRow(task.qid, task.answer)] + 1]_vars

C4_StatusUpdateInFlight ==
    task.pc = "awaitStatus" /\ Len(questions) >= 2

\* C5: the store holds at most one answer row for each question of the
\* interview and this applicant.
C5_AtMostOneAnswerPerQuestion ==
    \A q \in QuestionIds : RowsFor(q) <= 1

\* C6: once the applicant's interview_status is Completed, every step
\* leaves it Completed.
C6_StatusNeverReverts ==
    [][interviewStatus = "Completed" => interviewStatus' = "Completed"]_vars

\* C7: safeParse succeeds exactly on the bodies of the described shape; the
\* number of elements plays no part.
C7_AcceptsIffShapeValid ==
    parsed.done => (parsed.success <=> ShapeValid(candidate))

C7_TwoItemsAccepted ==
    parsed.done /\ parsed.success /\ Len(candidate.items) = 2

\* C8: when a caller's request settles on a 200 answer whose body is not of
\* the described shape, the caller ends with the schema error message, is
\* no longer generating, and its suggestion list is what it was; starting a
\* request does not change the suggestion list either.
C8_RejectedWholesale ==
    [][\A p \in Pages :
         /\ (pages[p].awaiting = 0 /\ pages'[p].awaiting # 0)
              => pages'[p].aiQuestions = pages[p].aiQuestions
         /\ (/\ pages[p].awaiting # 0 /\ pages'[p].awaiting = 0
             /\ promises[pages[p].awaiting].response.kind = "ok"
             /\ ~ShapeValid(promises[pages[p].awaiting].response.data))
              => /\ pages'[p].observed.kind = "rejected"
                 /\ pages'[p].generationError = SchemaMessage
                 /\ ~pages'[p].generating
                 /\ pages'[p].aiQuestions = pages[p].aiQuestions]_vars

C8_PartlyValidBodyRefused ==
    \E p \in Pages :
        /\ pages[p].observed.kind = "rejected"
        /\ pages[p].generationError = SchemaMessage
        /\ pages[p].aiQuestions = <<>>
        /\ \E k \in RequestsFor(pages[p].role) :
             /\ Len(promises[k].response.data.items) = 2
             /\ ZodItemIssues(promises[k].response.data.items[1], 1) = {}

\* C9: any two callers for the same job role that have received an outcome
\* have received the same one (the same list, or the same failure).
C9_SameOutcomeForAllCallers ==
    \A p, q \in Pages :
        (/\ pages[p].role = pages[q].role
         /\ pages[p].observed.kind # "none"
         /\ pages[q].observed.kind # "none")
        => pages[p].observed = pages[q].observed

C9_FailureShared ==
    \E p, q \in Pages :
        /\ p # q /\ pages[p].role = pages[q].role
        /\ pages[p].observed.kind = "rejected"
        /\ pages[q].observed.kind = "rejected"

\* C10: a generate click for a job role whose cached request has been
\* rejected starts a new request.
C10_RetryStartsFreshRequest ==
    [][\A p \in Pages :
         (/\ pages[p].awaiting = 0 /\ pages'[p].awaiting # 0
          /\ questionPromiseCache[pages[p].role] # 0
          /\ promises[questionPromiseCache[pages[p].role]].state = "rejected")
         => Len(promises') = Len(promises) + 1]_vars

\* C11: an entry of the cache is never removed or replaced: in every step a
\* job role that has an entry keeps the same promise, and a promise that has
\* settled keeps its state and value.
C11_CacheNeverEvicts ==
    [][\A r \in Roles :
         questionPromiseCache[r] # 0 =>
           /\ questionPromiseCache'[r] = questionPromiseCache[r]
           /\ promises'[questionPromiseCache[r]].role = r
           /\ promises[questionPromiseCache[r]].state # "pending"
                => promises'[questionPromiseCache[r]] = promises[questionPromiseCache[r]]]_vars

C11_RejectedEntryReused ==
    \E p \in Pages :
        /\ pages[p].observed.kind = "rejected"
        /\ pages[p].awaiting # 0
        /\ pages[p].awaiting = questionPromiseCache[pages[p].role]
        /\ promises[pages[p].awaiting].state = "rejected"

\* The utterances of all intervals, in order.
RECURSIVE Flatten(_)
Flatten(iv) == IF iv = <<>> THEN <<>> ELSE Head(iv) \o Flatten(Tail(iv))

Recording == listening /\ ~isPaused
Stopped == ~listening /\ isPaused

\* C12: within one question the capture controller only moves from stopped
\* (Idle, or Paused once something was said) to Recording by start or resume
\* and from Recording to Paused by pause, none of which changes the
\* transcript; and the transcript is always the concatenation of what was
\* heard in the recording intervals since the question was opened.
C12_TranscriptAppendOnly ==
    [][/\ transcript' = Flatten(intervals')
       /\ (route' = route /\ (isPaused' # isPaused \/ listening' # listening))
            => /\ transcript' = transcript
               /\ \/ Stopped /\ Recording'
                  \/ Recording /\ Stopped']_vars

C12_TwoIntervalsKept ==
    /\ Stopped
    /\ Len(intervals) = 2
    /\ intervals[1] # <<>> /\ intervals[2] # <<>>
    /\ transcript = intervals[1] \o intervals[2]

\* C13: when Next is clicked while the controller is Recording, the handler
\* pauses the capture before it reads the transcript, and from that click
\* until the answer write is answered nothing is appended to the transcript.
C13_NothingHeardWhileAnswerInFlight ==
    [][/\ (task.pc = "idle" /\ task'.pc = "awaitAnswer" /\ Recording)
            => (Stopped' /\ task'.answer = transcript /\ transcript' = transcript)
       /\ (task.pc = "awaitAnswer" /\ task.wasListening /\ task'.pc = "awaitAnswer")
            => \A u \in Utterances : transcript' # Append(transcript, u)]_vars

\* C14: Next submits the transcript as it is, the empty one included, with
\* no error; and when the write of an answer is accepted (an empty answer
\* like any other) exactly one row with that answer is added for the
\* question, and the walk goes on to the next question or, on the last
\* question, to the status update.
C14_EmptyAnswerAdvances ==
    [][/\ (task.pc = "idle" /\ task'.pc = "awaitAnswer")
            => (task'.answer = transcript /\ ~alert')
       /\ (task.pc = "awaitAnswer" /\ task'.pc # "awaitAnswer" /\ ~alert')
            => /\ answerRows' = [answerRows EXCEPT
                                   ![AnswerRow(task.qid, task.answer)] = @ + 1]
               /\ IF task.isLast THEN task'.pc = "awaitStatus"
                  ELSE route' = QuestionRoute(questions[task.idx + 2])]_vars

\* "I am a developer" on Q1, nothing on Q2, of a 2-question interview.
C14_SecondAnswerEmpty ==
    /\ Len(questions) = 2
    /\ clean /\ route = Complete /\ ~alert
    /\ TotalRows = 2
    /\ answerRows[AnswerRow(questions[1], <<"I am a developer">>)] = 1
    /\ answerRows[AnswerRow(questions[2], <<>>)] = 1
    /\ interviewStatus = "Completed"

\* C15: every step that takes the applicant from one question to a
\* different question leaves the capture controller Idle: not listening, the
\* paused flag set, and the transcript empty.
C15_SwitchResetsCapture ==
    [][(route.screen = "question" /\ route'.screen = "question"
        /\ route'.qid # route.qid)
         => (Stopped' /\ transcript' = <<>>)]_vars

\* C16: while the answer write of question k is in flight the controls of
\* question k+1 are not on screen.
C16_NextQuestionHiddenWhileWriteInFlight ==
    ~ (/\ task.pc = "awaitAnswer"
       /\ QuestionShown
       /\ currentQuestionIndex = task.idx + 1)

\* C17: a status update to Completed that is accepted when the applicant is
\* already Completed leaves the status Completed and the answer rows as they
\* are, and ends on the completion screen with no alert.
C17_CompletingAgainChangesNothing ==
    [][(task.pc = "awaitStatus" /\ interviewStatus = "Completed"
        /\ task'.pc = "idle" /\ ~alert')
         => /\ interviewStatus' = "Completed"
            /\ answerRows' = answerRows
            /\ route' = Complete]_vars

C17_SecondUpdateIssued ==
    /\ task.pc = "awaitStatus"
    /\ interviewStatus = "Completed"
    /\ TotalRows > Len(questions)

\* C18: with an empty question list the walk is never entered: nothing
\* navigates to a question, the controls of a question are never shown, no
\* submission is in flight, no answer row exists and the status is untouched.
C18_EmptyInterviewNeverEntered ==
    Len(questions) = 0 =>
        /\ reached <= 0
        /\ ~QuestionShown
        /\ route.screen # "complete"
        /\ task.pc = "idle" /\ ~submitting
        /\ TotalRows = 0
        /\ interviewStatus = "Not Started"

C18_QuestionUrlOfEmptyInterview ==
    Len(questions) = 0 /\ route.screen = "question"

InRange(i) == i >= 0 /\ i < Len(questions)

\* C19 as stated, for an interview that has questions: on the question
\* route the current question index is in [0, N), whatever id the route
\* carries.
C19_IndexInRangeOnEveryRoute ==
    (Len(questions) > 0 /\ route.screen = "question")
        => InRange(currentQuestionIndex)

\* C19: the index is in [0, N) whenever the question screen shows a
\* question, and -1 (Question Not Found, no controls) for an id that is not
\* in the list; a submission in flight holds an index in [0, N) and, when it
\* is not the last question's, reads the list at the next index, in [0, N).
C19_IndexInRangeWhenShown ==
    /\ route.screen = "question"
         => (InRange(currentQuestionIndex) \/ currentQuestionIndex = -1)
    /\ QuestionShown => InRange(currentQuestionIndex)
    /\ task.pc # "idle"
         => /\ InRange(task.idx)
            /\ ~task.isLast => InRange(task.idx + 1)

C19_UnknownQuestionId ==
    /\ Len(questions) > 0
    /\ route.screen = "question"
    /\ currentQuestionIndex = -1

\* C20: every answer row carries the route's interview id, a question of
\* that interview, and an applicant of that interview.
C20_AnswerWithinOneInterview ==
    \A k \in RowKeys :
        answerRows[k] > 0 =>
            /\ QuestionInterview(k.question_id) = interviewId
            /\ ApplicantInterview(urlApplicant) = interviewId

\* C21: once the quick-add of a page has ended, no suggestion whose
\* createQuestion succeeded on that page is in its suggestion list.
C21_PromotedStaysAbsent ==
    \A p \in Pages :
        pages[p].adding.pc = "idle" =>
            \A i \in 1..Len(pages[p].aiQuestions) :
                pages[p].aiQuestions[i].question \notin pages[p].promoted

\* The number of questions of a list with difficulty d.
CountOf(list, d) == Cardinality({i \in 1..Len(list) : list[i].difficulty = d})

\* C22: every 200 response of the endpoint carries exactly 10 questions,
\* 3 Easy, 3 Intermediate and 4 Advanced.
C22_SuccessCarriesTenQuestions ==
    reply.status = 200 =>
        /\ Len(reply.questions) = 10
        /\ CountOf(reply.questions, "Easy") = 3
        /\ CountOf(reply.questions, "Intermediate") = 3
        /\ CountOf(reply.questions, "Advanced") = 4

\* C23: every failure of a storage call ends with an error message shown to
\* the user; here for the load of an applicant's answers for review: once
\* the load has failed, the page shows something other than what it shows
\* after a successful load (the answers, or "No Answers Found").
C23_FailedReviewLoadShowsError ==
    (review.open /\ review.failed) =>
        ReviewMessage(review) \notin {"answers", "No Answers Found"}

Failing(resp) == resp.rejected \/ ~resp.ok \/ resp.total = NoHeader

\* C24: the count functions never fail towards their caller: on a transport
\* error, a non-OK status or a missing content-range header the count is 0,
\* every other count is the total of the header whatever the other request
\* of the interview was answered with, and the list of interviews still
\* loads, without an error, with one entry per interview.
C24_CountsNeverFail ==
    (desk.open /\ ~desk.loading /\ desk.error = NoError) =>
        /\ Len(desk.interviews) = Len(desk.responses)
        /\ \A i \in 1..Len(desk.interviews) :
             /\ desk.interviews[i].questionCount =
                    IF Failing(desk.responses[i].q) THEN 0
                    ELSE desk.responses[i].q.total
             /\ desk.interviews[i].applicantCount =
                    IF Failing(desk.responses[i].a) THEN 0
                    ELSE desk.responses[i].a.total

\* A list is shown whose first interview had its question count rejected
\* and its applicant count answered with a total above 0.
C24_FailedCountShownAsZero ==
    /\ desk.open /\ ~desk.loading /\ desk.error = NoError
    /\ Len(desk.interviews) >= 1
    /\ desk.responses[1].q.rejected
    /\ desk.responses[1].a.total > 0
    /\ desk.interviews[1].questionCount = 0
    /\ desk.interviews[1].applicantCount > 0

Blocked ==
    \/ micPermission = "denied"
    \/ ~isMicrophoneAvailable
    \/ ~browserSupportsSpeechRecognition

\* C25: while the microphone may not be used, or the engine reports it as
\* not available, or the browser has no speech recognition, the session is
\* blocked: no step starts a capture, adds an answer row or changes the
\* status of the applicant.
C25_BlockedWhileDeviceUnavailable ==
    [][ Blocked =>
          /\ listening' = listening
          /\ answerRows' = answerRows
          /\ interviewStatus' = interviewStatus ]_vars

\* C26: no step of the walk, and no closing of the tab with or without a
\* request in flight, deletes or overwrites a persisted answer: the number
\* of rows with a given question and answer never goes down.
C26_PersistedAnswersStay ==
    [][ \A k \in RowKeys : answerRows'[k] >= answerRows[k] ]_vars

\* The tab is closed on a session of which answers to both the first
\* question's wordings were written.
C26_ClosedWithAnswersKept ==
    /\ route = TabClosed
    /\ \E a, b \in Transcripts :
         /\ a # b
         /\ answerRows[AnswerRow(QuestionIdOf(1), a)] >= 1
         /\ answerRows[AnswerRow(QuestionIdOf(1), b)] >= 1

\* C27: the question list changes only when the layout loads it; every
\* other step of the walk (start, record, pause, advance, complete, and the
\* navigation between questions) leaves the list, and with it the index of
\* every question, as it is.
C27_QuestionListFixed ==
    [][ \/ /\ questions' = questions
           /\ \A q \in QuestionIds : findIndex(q)' = findIndex(q)
        \/ \E n \in 0..MaxQuestions : fetchData(n) ]_vars

\* A walk from the first question to the completion screen, every advance
\* stored, over a list of at least two questions.
C27_WalkedToTheEnd ==
    /\ route = Complete /\ clean
    /\ Len(questions) >= 2
    /\ advances = Len(questions)

\* C28: on the completion screen an answer row is stored for every question
\* of the list and the status of the applicant is Completed.
C28_CompletionMeansAllRecorded ==
    route = Complete =>
        /\ \A i \in 1..Len(questions) : RowsFor(questions[i]) >= 1
        /\ interviewStatus = "Completed"

\* C29: the submitting flag is true for as long as a call of
\* goToNextQuestion waits for the store, and at most one answer write is in
\* flight at a time.
C29_OneWriteInFlight ==
    /\ task.pc # "idle" => submitting
    /\ ~(task.pc = "awaitAnswer" /\ orphan.pc = "awaitAnswer")

\* C30: on a question screen that renders its controls, the capture flags
\* map to one of the recording controls Start, Pause and Continue.
C30_AlwaysARecordingControl ==
    ControlsShown => getRecordingButton \in {"Start", "Pause", "Continue"}

====
